---- MODULE Spec2Model ----
(***************************************************************************)
(* Model of the InfraX node: the HTTP request handlers of main.py, the     *)
(* background threads they start (node.install_app, node.uninstall_app,    *)
(* node.run_job), the in-memory Store and the reporting calls of crud.py.  *)
(* The coordinator (router) and the local filesystem are the environment:  *)
(* every coordinator call may succeed or raise, and the provisioning       *)
(* commands may succeed or fail.                                           *)
(***************************************************************************)
EXTENDS Integers, Sequences, FiniteSets, TLC

\* Number of background threads the handlers may start in one run.
MaxThreads == 2

\* The app ids of the requests. The operations of one app are those that
\* share a directory, which is where install, uninstall and run meet.
AppIds == {"app1"}

\* Shapes of App.files returned by crud.get_app / Job.files of a request.
AppFileSets == {{}, {"main.py"}, {"main.py", "requirements.txt"}}
JobFileSets == {{}, {"in.dat"}}

\* Largest reading of the clock (time.time()); 0 is the initial value of
\* start_time and end_time in run_job, which no reading of the clock equals.
MaxTime == 2

VARIABLES
    store_state,   \* Store.state
    store_node,    \* Store.node: "None" or "node"
    store_job,     \* Store.job: 0 for None, or the id of the job
    fs,            \* app directory tree under config.host.app_dir
    threads,       \* the background threads started so far
    response,      \* status code of the last HTTP response of the node
    coord_state,   \* node state last received by the coordinator
    log,           \* job state and Result reports received, in order
    transfer       \* a call of download_files or upload_files taken alone

vars == <<store_state, store_node, store_job, fs, threads, response,
          coord_state, log, transfer>>

NoDir == [exists |-> FALSE, venv |-> FALSE, req |-> FALSE,
          input |-> "absent", output |-> "absent"]

InstalledDir == [exists |-> TRUE, venv |-> TRUE, req |-> FALSE,
                 input |-> "absent", output |-> "absent"]

\* no call of download_files or upload_files is followed on its own
NoTransfer == [op |-> "none"]

\* Store.app_ids: the directories under the app root
app_ids == {a \in AppIds : fs[a].exists}

Thread(kind, app, job, files) ==
    [kind |-> kind, app |-> app, job |-> job, files |-> files,
     pc |-> "set_node_busy", exc |-> "none",
     appfiles |-> {}, present |-> FALSE, downloads |-> 0, calls |-> {},
     jobstate |-> "CREATED", success |-> "unbound", error |-> "none",
     file_ids |-> {}, returncode |-> -1,
     start_time |-> 0, end_time |-> 0]

\* The state when the server starts to handle requests: the Store as
\* constructed, with Store.node set by crud.register unless the node runs
\* local_only (main.py lifespan), and some of the apps already on disk.
Init ==
    /\ store_state = "IDLE"
    /\ store_node \in {"None", "node"}
    /\ store_job = 0
    /\ \E inst \in SUBSET AppIds :
         fs = [a \in AppIds |-> IF a \in inst THEN InstalledDir ELSE NoDir]
    /\ threads = <<>>
    /\ response = 0
    /\ coord_state = "IDLE"
    /\ log = <<>>
    /\ transfer = NoTransfer

----------------------------------------------------------------------------
\* main.py: request handlers. A handler and its fail_on_busy dependency run
\* on the event loop without awaiting, so a request is one step.

\* a gate that lets every request through
fail_on_busy_never == FALSE

fail_on_busy == store_state = "BUSY"

Respond(status) == response' = status

StartThread(t) ==
    /\ Len(threads) < MaxThreads
    /\ threads' = Append(threads, t)

Rejected(status) ==
    /\ Respond(status)
    /\ UNCHANGED <<store_state, store_node, transfer, store_job, fs, threads,
                   coord_state, log>>

\* a handler that starts the install without looking at Store.app_ids
post_app_unchecked(a) ==
    IF fail_on_busy THEN Rejected(409)
    ELSE /\ StartThread(Thread("install", a, 0, {}))
         /\ Respond(200)
         /\ UNCHANGED <<store_state, store_node, transfer, store_job, fs,
                        coord_state, log>>

post_app(a) ==
    IF fail_on_busy THEN Rejected(409)
    ELSE IF a \in app_ids THEN Rejected(409)
    ELSE /\ StartThread(Thread("install", a, 0, {}))
         /\ Respond(200)
         /\ UNCHANGED <<store_state, store_node, transfer, store_job, fs,
                        coord_state, log>>

\* a handler that starts the uninstall without looking at Store.app_ids
delete_app_unchecked(a) ==
    IF fail_on_busy THEN Rejected(409)
    ELSE /\ StartThread(Thread("uninstall", a, 0, {}))
         /\ Respond(200)
         /\ UNCHANGED <<store_state, store_node, transfer, store_job, fs,
                        coord_state, log>>

delete_app(a) ==
    IF fail_on_busy THEN Rejected(409)
    ELSE IF a \notin app_ids THEN Rejected(404)
    ELSE /\ StartThread(Thread("uninstall", a, 0, {}))
         /\ Respond(200)
         /\ UNCHANGED <<store_state, store_node, transfer, store_job, fs,
                        coord_state, log>>

\* a handler that stores and starts the job without looking at Store.app_ids
create_job_unchecked(j, a, files) ==
    IF fail_on_busy THEN Rejected(409)
    ELSE /\ store_job' = j
         /\ StartThread(Thread("run", a, j, files))
         /\ Respond(201)
         /\ UNCHANGED <<store_state, store_node, transfer, fs,
                        coord_state, log>>

create_job(j, a, files) ==
    IF fail_on_busy THEN Rejected(409)
    ELSE IF a \notin app_ids THEN Rejected(404)
    ELSE /\ store_job' = j
         /\ StartThread(Thread("run", a, j, files))
         /\ Respond(201)
         /\ UNCHANGED <<store_state, store_node, transfer, fs,
                        coord_state, log>>

InstallRequest == \E a \in AppIds : post_app(a)
UninstallRequest == \E a \in AppIds : delete_app(a)
\* the coordinator issues every job id once
NextJobId == Len(threads) + 1

JobRequest == \E a \in AppIds, f \in JobFileSets : create_job(NextJobId, a, f)

----------------------------------------------------------------------------
\* Background threads: helpers

Running(i) == threads[i].pc \notin {"done", "crashed"}

Upd(i, r) == threads' = [threads EXCEPT ![i] = r]

Goto(t, pc) == [t EXCEPT !.pc = pc]

\* a coordinator call of the thread that was answered with success
Called(t, c) == [t EXCEPT !.calls = @ \cup {c}]

\* an exception that leaves the thread's target function
Crash(t, e) == [t EXCEPT !.pc = "crashed", !.exc = e]

\* a set_node_state that puts Store.state back when the PUT fails
set_node_state_rollback(i, state, ok, next) ==
    IF store_node = "None"
    THEN /\ Upd(i, Crash(threads[i], "NodeNotFoundException"))
         /\ UNCHANGED <<store_state, coord_state>>
    ELSE IF ok
         THEN /\ store_state' = state
              /\ coord_state' = state
              /\ Upd(i, Goto(threads[i], next))
         ELSE /\ UNCHANGED <<store_state, coord_state>>
              /\ Upd(i, Crash(threads[i], "HTTPStatusError"))

\* a set_node_state that does not look at Store.node
set_node_state_unregistered(i, state, ok, next) ==
    /\ store_state' = state
    /\ IF ok
       THEN /\ coord_state' = state
            /\ Upd(i, Goto(threads[i], next))
       ELSE /\ UNCHANGED coord_state
            /\ Upd(i, Crash(threads[i], "HTTPStatusError"))

\* crud.set_node_state: the Store is written before the PUT is sent
set_node_state(i, state, ok, next) ==
    IF store_node = "None"
    THEN /\ Upd(i, Crash(threads[i], "NodeNotFoundException"))
         /\ UNCHANGED <<store_state, coord_state>>
    ELSE /\ store_state' = state
         /\ IF ok
            THEN /\ coord_state' = state
                 /\ Upd(i, Goto(threads[i], next))
            ELSE /\ UNCHANGED coord_state
                 /\ Upd(i, Crash(threads[i], "HTTPStatusError"))

\* crud.set_node_busy, the first statement of every background function
set_node_busy(i) ==
    /\ threads[i].pc = "set_node_busy"
    /\ \E ok \in BOOLEAN :
         set_node_state(i, "BUSY", ok,
                        CASE threads[i].kind = "install" -> "get_app"
                          [] threads[i].kind = "uninstall" -> "un_exists"
                          [] OTHER -> "rj_exists")
    /\ UNCHANGED <<store_node, transfer, store_job, fs, response, log>>

\* crud.set_node_idle as the last statement of a background function
set_node_idle(i) ==
    /\ threads[i].pc = "set_node_idle"
    /\ \E ok \in BOOLEAN : set_node_state(i, "IDLE", ok, "done")
    /\ UNCHANGED <<store_node, transfer, store_job, fs, response, log>>

----------------------------------------------------------------------------
\* node.install_app

get_app(i) ==
    /\ threads[i].pc = "get_app"
    /\ \/ \E f \in AppFileSets :
            Upd(i, [threads[i] EXCEPT !.pc = "in_exists", !.appfiles = f])
       \/ Upd(i, Crash(threads[i], "HTTPStatusError"))
    /\ UNCHANGED <<store_state, store_node, transfer, store_job, fs, response,
                   coord_state, log>>

\* app_path.exists() at node.py:35
install_exists(i) ==
    /\ threads[i].pc = "in_exists"
    /\ IF fs[threads[i].app].exists
       THEN Upd(i, [threads[i] EXCEPT !.pc = "add_app", !.present = TRUE])
       ELSE Upd(i, Goto(threads[i], "in_mkdir"))
    /\ UNCHANGED <<store_state, store_node, transfer, store_job, fs, response,
                   coord_state, log>>

\* app_path.mkdir(parents=True, exist_ok=True)
install_mkdir(i) ==
    LET t == threads[i] IN
    /\ t.pc = "in_mkdir"
    /\ \/ /\ fs' = [fs EXCEPT ![t.app].exists = TRUE]
          /\ Upd(i, [t EXCEPT !.pc = "in_venv"])
       \/ /\ UNCHANGED fs
          /\ Upd(i, [t EXCEPT !.pc = "report_failed", !.error = "OSError"])
    /\ UNCHANGED <<store_state, store_node, transfer, store_job, response,
                   coord_state, log>>

\* subprocess.run(["python3.11", "-m", "venv", ...]): the exit status is not
\* checked, only a failure to start the command raises
install_venv(i) ==
    LET t == threads[i] IN
    /\ t.pc = "in_venv"
    /\ \/ /\ fs' = [fs EXCEPT ![t.app].exists = TRUE, ![t.app].venv = TRUE]
          /\ Upd(i, [t EXCEPT !.pc = "in_download"])
       \/ /\ UNCHANGED fs
          /\ Upd(i, [t EXCEPT !.pc = "in_download", !.returncode = 1])
       \/ /\ UNCHANGED fs
          /\ Upd(i, [t EXCEPT !.pc = "report_failed", !.error = "FileNotFoundError"])
    /\ UNCHANGED <<store_state, store_node, transfer, store_job, response,
                   coord_state, log>>

\* download_files(app.files, app_path)
install_download(i) ==
    LET t == threads[i] IN
    /\ t.pc = "in_download"
    /\ IF t.appfiles = {}
       THEN /\ UNCHANGED fs
            /\ Upd(i, Goto(t, "in_pip"))
       ELSE \/ /\ fs[t.app].exists
               /\ fs' = [fs EXCEPT ![t.app].req =
                            @ \/ "requirements.txt" \in t.appfiles]
               /\ Upd(i, [t EXCEPT !.pc = "in_pip",
                                   !.downloads = Cardinality(t.appfiles)])
            \/ /\ ~fs[t.app].exists
               /\ UNCHANGED fs
               /\ Upd(i, [t EXCEPT !.pc = "report_failed",
                                   !.error = "FileNotFoundError",
                                   !.downloads = Cardinality(t.appfiles)])
            \/ /\ UNCHANGED fs
               /\ Upd(i, [t EXCEPT !.pc = "report_failed", !.error = "HTTPError"])
    /\ UNCHANGED <<store_state, store_node, transfer, store_job, response,
                   coord_state, log>>

\* pip install -r requirements.txt when the file exists; exit status unchecked
install_pip(i) ==
    LET t == threads[i] IN
    /\ t.pc = "in_pip"
    /\ IF fs[t.app].req
       THEN \/ Upd(i, Goto(t, "add_app"))
            \/ Upd(i, [t EXCEPT !.pc = "add_app", !.returncode = 1])
            \/ Upd(i, [t EXCEPT !.pc = "report_failed", !.error = "FileNotFoundError"])
       ELSE Upd(i, Goto(t, "add_app"))
    /\ UNCHANGED <<store_state, store_node, transfer, store_job, fs, response,
                   coord_state, log>>

report_failed_app_install(i) ==
    LET t == threads[i] IN
    /\ t.pc = "report_failed"
    /\ t.kind = "install"
    /\ \/ Upd(i, Goto(Called(t, "INSTALL_ERROR"), "add_app"))
       \/ Upd(i, Crash(t, "HTTPStatusError"))
    /\ UNCHANGED <<store_state, store_node, transfer, store_job, fs, response,
                   coord_state, log>>

\* an install that goes on to set_node_idle without the add_app call
add_app_skipped(i) ==
    /\ threads[i].pc = "add_app"
    /\ Upd(i, Goto(threads[i], "set_node_idle"))
    /\ UNCHANGED <<store_state, store_node, transfer, store_job, fs, response,
                   coord_state, log>>

add_app(i) ==
    LET t == threads[i] IN
    /\ t.pc = "add_app"
    /\ IF store_node = "None"
       THEN Upd(i, Crash(t, "NodeNotFoundException"))
       ELSE \/ Upd(i, Goto(Called(t, "add_app"), "set_node_idle"))
            \/ Upd(i, Crash(t, "HTTPStatusError"))
    /\ UNCHANGED <<store_state, store_node, transfer, store_job, fs, response,
                   coord_state, log>>

----------------------------------------------------------------------------
\* node.uninstall_app

\* app_path.exists() at node.py:85
uninstall_exists(i) ==
    /\ threads[i].pc = "un_exists"
    /\ IF fs[threads[i].app].exists
       THEN Upd(i, Goto(threads[i], "un_rm"))
       ELSE Upd(i, Goto(threads[i], "set_node_idle"))
    /\ UNCHANGED <<store_state, store_node, transfer, store_job, fs, response,
                   coord_state, log>>

\* subprocess.run(["rm", "-rf", app_path]): the exit status is not checked;
\* when the command cannot be started the handler falls back on shutil.rmtree,
\* which may raise in its turn
uninstall_rm(i) ==
    LET t == threads[i] IN
    /\ t.pc = "un_rm"
    /\ \/ /\ fs' = [fs EXCEPT ![t.app] = NoDir]
          /\ Upd(i, [t EXCEPT !.pc = "remove_app"])
       \/ /\ fs[t.app].exists
          /\ UNCHANGED fs
          /\ Upd(i, [t EXCEPT !.pc = "remove_app", !.returncode = 1])
       \/ /\ fs' = [fs EXCEPT ![t.app] = NoDir]
          /\ Upd(i, [t EXCEPT !.pc = "report_failed", !.error = "OSError"])
       \/ /\ fs[t.app].exists
          /\ UNCHANGED fs
          /\ Upd(i, Crash(t, "OSError"))
    /\ UNCHANGED <<store_state, store_node, transfer, store_job, response,
                   coord_state, log>>

report_failed_app_uninstall(i) ==
    LET t == threads[i] IN
    /\ t.pc = "report_failed"
    /\ t.kind = "uninstall"
    /\ \/ Upd(i, Goto(Called(t, "UNINSTALL_ERROR"), "remove_app"))
       \/ Upd(i, Crash(t, "HTTPStatusError"))
    /\ UNCHANGED <<store_state, store_node, transfer, store_job, fs, response,
                   coord_state, log>>

remove_app(i) ==
    LET t == threads[i] IN
    /\ t.pc = "remove_app"
    /\ IF store_node = "None"
       THEN Upd(i, Crash(t, "NodeNotFoundException"))
       ELSE \/ Upd(i, Goto(Called(t, "remove_app"), "set_node_idle"))
            \/ Upd(i, Crash(t, "HTTPStatusError"))
    /\ UNCHANGED <<store_state, store_node, transfer, store_job, fs, response,
                   coord_state, log>>

----------------------------------------------------------------------------
\* node.run_job

\* time.time(): the readings of a clock that never goes backwards, as seen by
\* the thread that has read start_time and end_time from it before. The first
\* reading of a run is 1 (any reading is larger than the initial 0); the
\* later ones are any value from the last reading up to MaxTime.
time_time(t) ==
    IF t.start_time = 0 /\ t.end_time = 0
    THEN {1}
    ELSE {x \in 1..MaxTime : x >= t.start_time /\ x >= t.end_time}

\* the clock of the except clause, were it time.process_time(): the CPU time
\* of the process, unrelated to the readings of time.time()
except_process_time(t) == 0..MaxTime

\* the clock read by the except clause of run_job (node.py:190-192)
except_time(t) == time_time(t)

\* the except clause of run_job (node.py:185-192), entered from inside the try
Except(t, e) ==
    [t EXCEPT !.pc = "rj_finally", !.success = "false", !.error = e,
              !.file_ids = {}]

\* thread i enters the except clause: r is the thread after Except, and
\* end_time is read from the clock when it is still 0
Caught(i, r) ==
    \E now \in except_time(r) :
        Upd(i, [r EXCEPT !.end_time = IF @ = 0 THEN now ELSE @])

StateReport(i, t, s) == [thread |-> i, job |-> t.job, kind |-> "state", val |-> s]

ResultReport(i, t) ==
    [thread |-> i, job |-> t.job, kind |-> "result",
     val |-> <<t.success, t.error, t.file_ids, t.end_time - t.start_time>>]

\* app_path.exists() at node.py:120; when the directory is missing the
\* function calls set_node_idle and returns from inside the try, so the
\* finally clause still runs, with success, error and file_ids unbound
run_exists(i) ==
    LET t == threads[i] IN
    /\ t.pc = "rj_exists"
    /\ IF fs[t.app].exists
       THEN /\ Upd(i, Goto(t, "rj_stage"))
            /\ UNCHANGED <<store_state, coord_state>>
       ELSE IF store_node = "None"
            THEN /\ Caught(i, Except(t, "NodeNotFoundException"))
                 /\ UNCHANGED <<store_state, coord_state>>
            ELSE /\ store_state' = "IDLE"
                 /\ \/ /\ coord_state' = "IDLE"
                       /\ Upd(i, Goto(t, "rj_finally"))
                    \/ /\ UNCHANGED coord_state
                       /\ Caught(i, Except(t, "HTTPStatusError"))
    /\ UNCHANGED <<store_node, transfer, store_job, fs, response, log>>

\* reset input/ and output/ (node.py:126-132)
run_stage(i) ==
    LET t == threads[i] IN
    /\ t.pc = "rj_stage"
    /\ IF fs[t.app].exists
       THEN /\ fs' = [fs EXCEPT ![t.app].input = "empty", ![t.app].output = "empty"]
            /\ Upd(i, [t EXCEPT !.pc = "rj_download"])
       ELSE /\ UNCHANGED fs
            /\ Caught(i, Except(t, "FileNotFoundError"))
    /\ UNCHANGED <<store_state, store_node, transfer, store_job, response,
                   coord_state, log>>

\* download_files(job.files or [], input_path)
run_download(i) ==
    LET t == threads[i] IN
    /\ t.pc = "rj_download"
    /\ IF t.files = {}
       THEN /\ UNCHANGED fs
            /\ Upd(i, Goto(t, "rj_spawn"))
       ELSE \/ /\ fs[t.app].input # "absent"
               /\ fs' = [fs EXCEPT ![t.app].input = "files"]
               /\ Upd(i, [t EXCEPT !.pc = "rj_spawn",
                                   !.downloads = Cardinality(t.files)])
            \/ /\ fs[t.app].input = "absent"
               /\ UNCHANGED fs
               /\ Caught(i, [Except(t, "FileNotFoundError") EXCEPT
                                   !.downloads = Cardinality(t.files)])
            \/ /\ UNCHANGED fs
               /\ Caught(i, Except(t, "HTTPError"))
    /\ UNCHANGED <<store_state, store_node, transfer, store_job, response,
                   coord_state, log>>

\* the entrypoint check and subprocess.Popen (node.py:137-160)
run_spawn(i) ==
    LET t == threads[i] IN
    /\ t.pc = "rj_spawn"
    /\ IF fs[t.app].venv
       THEN \E now \in time_time(t) :
               \/ Upd(i, [t EXCEPT !.pc = "rj_wait", !.start_time = now])
               \/ Caught(i, [Except(t, "OSError") EXCEPT !.start_time = now])
       ELSE Caught(i, Except(t, "FileNotFoundError"))
    /\ UNCHANGED <<store_state, store_node, transfer, store_job, fs, response,
                   coord_state, log>>

\* the subprocess ends: it may have written output files, and its exit code
\* decides success and error (node.py:163-173)
run_wait(i) ==
    LET t == threads[i] IN
    /\ t.pc = "rj_wait"
    /\ \E code \in {0, 1}, out \in BOOLEAN, now \in time_time(t) :
         /\ fs' = IF out /\ fs[t.app].output # "absent"
                  THEN [fs EXCEPT ![t.app].output = "files"]
                  ELSE fs
         /\ Upd(i, [t EXCEPT !.pc = "rj_finishing", !.returncode = code,
                             !.end_time = now,
                             !.success = IF code = 0 THEN "true" ELSE "false",
                             !.error = IF code = 0 THEN "none" ELSE "exit code"])
    /\ UNCHANGED <<store_state, store_node, transfer, store_job, response,
                   coord_state, log>>

\* crud.set_job_finishing(job), inside the try
run_finishing(i) ==
    LET t == threads[i] IN
    /\ t.pc = "rj_finishing"
    /\ \/ /\ log' = Append(log, StateReport(i, t, "FINISHING"))
          /\ Upd(i, [t EXCEPT !.pc = "rj_upload", !.jobstate = "FINISHING"])
       \/ /\ UNCHANGED log
          /\ Caught(i, [Except(t, "HTTPStatusError") EXCEPT !.jobstate = "FINISHING"])
    /\ UNCHANGED <<store_state, store_node, transfer, store_job, fs, response,
                   coord_state>>

\* output_path.mkdir, iterdir and upload_files (node.py:178-183); upload_files
\* returns [] when there is nothing to upload or the upload is refused
run_upload(i) ==
    LET t == threads[i] IN
    /\ t.pc = "rj_upload"
    /\ IF ~fs[t.app].exists
       THEN /\ UNCHANGED fs
            /\ Caught(i, Except(t, "FileNotFoundError"))
       ELSE /\ fs' = [fs EXCEPT ![t.app].output =
                         IF @ = "absent" THEN "empty" ELSE @]
            /\ \E accepted \in BOOLEAN :
                 Upd(i, [t EXCEPT !.pc = "rj_finally",
                                  !.file_ids =
                                     IF fs[t.app].output = "files" /\ accepted
                                     THEN {"out"} ELSE {}])
    /\ UNCHANGED <<store_state, store_node, transfer, store_job, response,
                   coord_state, log>>

\* the finally clause up to the construction of the Result (node.py:194-212):
\* input/ and output/ are removed, and Result(...) reads success, error and
\* file_ids, which are unbound after the early return
run_finally(i) ==
    LET t == threads[i] IN
    /\ t.pc = "rj_finally"
    /\ fs' = [fs EXCEPT ![t.app].input = "absent", ![t.app].output = "absent"]
    /\ IF t.success = "unbound"
       THEN Upd(i, Crash(t, "UnboundLocalError"))
       ELSE Upd(i, Goto(t, "upload_result"))
    /\ UNCHANGED <<store_state, store_node, transfer, store_job, response,
                   coord_state, log>>

upload_result(i) ==
    LET t == threads[i] IN
    /\ t.pc = "upload_result"
    /\ \/ /\ log' = Append(log, ResultReport(i, t))
          /\ Upd(i, Goto(t, "set_job_finished"))
       \/ /\ UNCHANGED log
          /\ Upd(i, Crash(t, "HTTPStatusError"))
    /\ UNCHANGED <<store_state, store_node, transfer, store_job, fs, response,
                   coord_state>>

set_job_finished(i) ==
    LET t == threads[i] IN
    /\ t.pc = "set_job_finished"
    /\ \/ /\ log' = Append(log, StateReport(i, t, "FINISHED"))
          /\ Upd(i, [t EXCEPT !.pc = "set_node_idle", !.jobstate = "FINISHED"])
       \/ /\ UNCHANGED log
          /\ Upd(i, [Crash(t, "HTTPStatusError") EXCEPT !.jobstate = "FINISHED"])
    /\ UNCHANGED <<store_state, store_node, transfer, store_job, fs, response,
                   coord_state>>

----------------------------------------------------------------------------
ThreadIds == 1..Len(threads)

Next ==
    \/ InstallRequest
    \/ UninstallRequest
    \/ JobRequest
    \/ \E i \in ThreadIds : set_node_busy(i)
    \/ \E i \in ThreadIds : get_app(i)
    \/ \E i \in ThreadIds : install_exists(i)
    \/ \E i \in ThreadIds : install_mkdir(i)
    \/ \E i \in ThreadIds : install_venv(i)
    \/ \E i \in ThreadIds : install_download(i)
    \/ \E i \in ThreadIds : install_pip(i)
    \/ \E i \in ThreadIds : report_failed_app_install(i)
    \/ \E i \in ThreadIds : add_app(i)
    \/ \E i \in ThreadIds : uninstall_exists(i)
    \/ \E i \in ThreadIds : uninstall_rm(i)
    \/ \E i \in ThreadIds : report_failed_app_uninstall(i)
    \/ \E i \in ThreadIds : remove_app(i)
    \/ \E i \in ThreadIds : run_exists(i)
    \/ \E i \in ThreadIds : run_stage(i)
    \/ \E i \in ThreadIds : run_download(i)
    \/ \E i \in ThreadIds : run_spawn(i)
    \/ \E i \in ThreadIds : run_wait(i)
    \/ \E i \in ThreadIds : run_finishing(i)
    \/ \E i \in ThreadIds : run_upload(i)
    \/ \E i \in ThreadIds : run_finally(i)
    \/ \E i \in ThreadIds : upload_result(i)
    \/ \E i \in ThreadIds : set_job_finished(i)
    \/ \E i \in ThreadIds : set_node_idle(i)

Spec == Init /\ [][Next]_vars

\* the steps of thread i; threads are operating-system threads, each of which
\* keeps being scheduled
ThreadStep(i) ==
    /\ i \in ThreadIds
    /\ \/ set_node_busy(i) \/ get_app(i) \/ install_exists(i)
       \/ install_mkdir(i) \/ install_venv(i) \/ install_download(i)
       \/ install_pip(i) \/ report_failed_app_install(i) \/ add_app(i)
       \/ uninstall_exists(i) \/ uninstall_rm(i)
       \/ report_failed_app_uninstall(i) \/ remove_app(i)
       \/ run_exists(i) \/ run_stage(i) \/ run_download(i) \/ run_spawn(i)
       \/ run_wait(i) \/ run_finishing(i) \/ run_upload(i) \/ run_finally(i)
       \/ upload_result(i) \/ set_job_finished(i) \/ set_node_idle(i)

FairSpec == Spec /\ \A i \in 1..MaxThreads : WF_vars(ThreadStep(i))

----------------------------------------------------------------------------
\* download_files and upload_files of node.py, one call followed on its own:
\* the files of the call, what the coordinator answers for each, and what
\* ends up in the destination directory or in the returned list.

\* Largest number of files of one call; the files are 1..MaxFiles in the
\* order of the list.
MaxFiles == 3

FileIds == 1..MaxFiles

\* what a path handed to upload_files is on disk
PathKinds == {"file", "dir", "missing"}

\* the rest of the node while a single call is followed
NodeAtRest ==
    /\ store_state = "IDLE"
    /\ store_node = "node"
    /\ store_job = 0
    /\ fs = [a \in AppIds |-> NoDir]
    /\ threads = <<>>
    /\ response = 0
    /\ coord_state = "IDLE"
    /\ log = <<>>

DownloadCall(F) ==
    [op |-> "download", pc |-> "fetching", files |-> F,
     fetch |-> [f \in F |-> "pending"], dest |-> [f \in F |-> "none"]]

UploadCall(K) ==
    [op |-> "upload", pc |-> "opening", kinds |-> K, opened |-> {},
     skipped |-> {}, accepted |-> {}, result |-> {}]

\* one httpx.get of thread_map ends: with a 2xx response, with a response of
\* another status (no raise_for_status follows), or with an exception
dl_fetch ==
    /\ transfer.op = "download"
    /\ transfer.pc = "fetching"
    /\ \E f \in transfer.files, r \in {"ok", "bad_status", "raised"} :
         /\ transfer.fetch[f] = "pending"
         /\ transfer' = [transfer EXCEPT !.fetch[f] = r]
    /\ UNCHANGED <<store_state, store_node, store_job, fs, threads, response,
                   coord_state, log>>

\* thread_map returns the list of responses once every get has ended, or
\* raises the exception of a get; the loop that writes comes after it
dl_settle ==
    /\ transfer.op = "download"
    /\ transfer.pc = "fetching"
    /\ \A f \in transfer.files : transfer.fetch[f] # "pending"
    /\ transfer' = [transfer EXCEPT !.pc =
                       IF \E f \in transfer.files : transfer.fetch[f] = "raised"
                       THEN "raised" ELSE "writing"]
    /\ UNCHANGED <<store_state, store_node, store_job, fs, threads, response,
                   coord_state, log>>

\* the files of the call not yet written
Unwritten == {f \in transfer.files : transfer.dest[f] = "none"}

\* f.write(response.content) for the next file of the list: the content is
\* the body of the response, whatever its status
dl_write ==
    /\ transfer.op = "download"
    /\ transfer.pc = "writing"
    /\ Unwritten # {}
    /\ LET f == CHOOSE x \in Unwritten : \A y \in Unwritten : x <= y
       IN  transfer' = [transfer EXCEPT !.dest[f] =
                           IF transfer.fetch[f] = "ok"
                           THEN "source" ELSE "error_body"]
    /\ UNCHANGED <<store_state, store_node, store_job, fs, threads, response,
                   coord_state, log>>

dl_return ==
    /\ transfer.op = "download"
    /\ transfer.pc = "writing"
    /\ Unwritten = {}
    /\ transfer' = [transfer EXCEPT !.pc = "returned"]
    /\ UNCHANGED <<store_state, store_node, store_job, fs, threads, response,
                   coord_state, log>>

\* `not path.exists() and path.is_file()` at node.py:268
upload_skips(kind) == ~(kind # "missing") /\ kind = "file"

\* the paths of the call the loop has not reached
Unopened == DOMAIN transfer.kinds \ (transfer.opened \cup transfer.skipped)

\* one turn of the loop over the paths (node.py:267-274): open(path, "rb")
\* raises for a path that is missing or a directory, outside any try
up_open ==
    /\ transfer.op = "upload"
    /\ transfer.pc = "opening"
    /\ Unopened # {}
    /\ LET p == CHOOSE x \in Unopened : \A y \in Unopened : x <= y
       IN  IF upload_skips(transfer.kinds[p])
           THEN transfer' = [transfer EXCEPT !.skipped = @ \cup {p}]
           ELSE IF transfer.kinds[p] = "file"
           THEN transfer' = [transfer EXCEPT !.opened = @ \cup {p}]
           ELSE transfer' = [transfer EXCEPT !.pc = "raised"]
    /\ UNCHANGED <<store_state, store_node, store_job, fs, threads, response,
                   coord_state, log>>

\* `if not files: return []`
up_empty ==
    /\ transfer.op = "upload"
    /\ transfer.pc = "opening"
    /\ Unopened = {}
    /\ transfer.opened = {}
    /\ transfer' = [transfer EXCEPT !.pc = "returned"]
    /\ UNCHANGED <<store_state, store_node, store_job, fs, threads, response,
                   coord_state, log>>

\* the one multipart POST of all the opened files: the coordinator answers
\* 201 with the ids of the files it accepted, or with another status, or the
\* request raises; the last two return []
up_post ==
    /\ transfer.op = "upload"
    /\ transfer.pc = "opening"
    /\ Unopened = {}
    /\ transfer.opened # {}
    /\ \/ \E A \in SUBSET transfer.opened :
            transfer' = [transfer EXCEPT !.pc = "returned", !.accepted = A,
                                         !.result = A]
       \/ transfer' = [transfer EXCEPT !.pc = "returned"]
    /\ UNCHANGED <<store_state, store_node, store_job, fs, threads, response,
                   coord_state, log>>

TransferInit ==
    /\ NodeAtRest
    /\ transfer \in {DownloadCall(F) : F \in SUBSET FileIds}
                    \cup {UploadCall(K) :
                            K \in UNION {[P -> PathKinds] : P \in SUBSET FileIds}}

TransferNext ==
    \/ dl_fetch
    \/ dl_settle
    \/ dl_write
    \/ dl_return
    \/ up_open
    \/ up_empty
    \/ up_post

TransferSpec == TransferInit /\ [][TransferNext]_vars

----------------------------------------------------------------------------
\* Observations used by the properties

Request == InstallRequest \/ UninstallRequest \/ JobRequest

\* the operations that were acknowledged and have not finished
Admitted == {i \in ThreadIds : Running(i)}

Terminated(i) == ~Running(i)

\* thread i leaves its function in this step, by return or by exception
Exits(i) == Running(i) /\ threads'[i].pc \in {"done", "crashed"}

\* no call of thread i to the coordinator has failed, and the node is registered
NoCoordinatorFailure(i) ==
    threads[i].exc \notin {"HTTPStatusError", "NodeNotFoundException"}

\* the reports the coordinator received from run i, in order
Reports(i) == SelectSeq(log, LAMBDA e : e.thread = i)

JobStates(i) ==
    LET r == SelectSeq(log, LAMBDA e : e.thread = i /\ e.kind = "state")
    IN  [k \in 1..Len(r) |-> r[k].val]

Count(i, kind, val) ==
    Cardinality({k \in 1..Len(log) :
        /\ log[k].thread = i
        /\ log[k].kind = kind
        /\ (kind = "state" => log[k].val = val)})

Runs == {i \in ThreadIds : threads[i].kind = "run"}

----------------------------------------------------------------------------
\* C1: at most one background operation (install_app, uninstall_app or
\* run_job) is executing on the node at any time.
C1_AtMostOneExecuting == Cardinality(Admitted) <= 1

\* C2: Store.state is BUSY if and only if exactly one operation is admitted
\* (acknowledged and not finished); no operation is admitted while the state
\* is still IDLE.
C2_BusyIffOneAdmitted == (store_state = "BUSY") <=> (Cardinality(Admitted) = 1)

\* C3: every admitted operation has returned Store.state to IDLE when it is
\* over, on every exit path: once no operation is left running, the state is
\* IDLE.
C3_ReleasedOnEveryExit ==
    (\A i \in ThreadIds : Terminated(i)) => store_state = "IDLE"

\* C4: the job states reported for a job that has run to its end are exactly
\* WORKING, FINISHING, FINISHED, in that order, each once.
C4_ReportedJobStates ==
    \A i \in Runs :
        threads[i].pc = "done" => JobStates(i) = <<"WORKING", "FINISHING", "FINISHED">>

\* C5: every admitted job whose run is over has had FINISHED reported exactly
\* once, early failures (app directory missing, missing entrypoint, download
\* failure) included. Stated for the runs of which no coordinator call failed.
C5_FinishedExactlyOnce ==
    \A i \in Runs :
        (Terminated(i) /\ NoCoordinatorFailure(i)) =>
            Count(i, "state", "FINISHED") = 1

\* C6: every admitted job whose run is over has had exactly one Result
\* reported, and no FINISHED report precedes it; also when the app directory
\* is missing or staging, execution or upload failed. Stated for the runs of
\* which no coordinator call failed.
C6_OneResultBeforeFinished ==
    \A i \in Runs :
        /\ (Terminated(i) /\ NoCoordinatorFailure(i)) =>
              Count(i, "result", "") = 1
        /\ \A k \in 1..Len(Reports(i)) :
             Reports(i)[k] = StateReport(i, threads[i], "FINISHED") =>
                \E m \in 1..(k - 1) : Reports(i)[m].kind = "result"

\* C7: a request handled while Store.state is BUSY is answered 409 and has
\* no side effect: Store.state, Store.job, the threads, the filesystem and
\* the coordinator are as before.
C7_BusyGate ==
    [][(store_state = "BUSY" /\ Request) =>
         /\ response' = 409
         /\ UNCHANGED <<store_state, store_node, store_job, fs, threads,
                        coord_state, log>>]_vars

\* a request was refused by the busy gate: the only operation is an install
\* that has set BUSY and has not yet created the directory, so the 409 cannot
\* be the one of an app already installed
C7_Witness ==
    /\ Len(threads) = 1
    /\ threads[1].kind = "install"
    /\ threads[1].pc = "get_app"
    /\ store_state = "BUSY"
    /\ response = 409

\* C8: when a job run that entered its try block is over, however it ended,
\* input/ and output/ of the app hold no files.
C8_StagingEmptyAfterRun ==
    [][\A i \in Runs :
         (Exits(i) /\ threads[i].pc # "set_node_busy") =>
                     /\ fs'[threads[i].app].input # "files"
                     /\ fs'[threads[i].app].output # "files"]_vars

\* C9: an install_app that finds the app directory present downloads
\* nothing, provisions nothing and leaves the filesystem alone, and when it
\* is over the coordinator has been told add_app and the node state is IDLE.
C9_InstallPresent ==
    [][\A i \in ThreadIds :
         (threads[i].kind = "install" /\ threads[i].present) =>
            /\ threads'[i] # threads[i] =>
                 /\ fs' = fs
                 /\ threads'[i].downloads = 0
                 /\ threads'[i].pc \in {"set_node_idle", "done", "crashed"}
            /\ Exits(i) =>
                 /\ "add_app" \in threads'[i].calls
                 /\ store_state' = "IDLE"]_vars

\* the scenario of C10: a single install, of an app that was not installed
\* and has no files, over and with no coordinator call failed
C10_Scenario ==
    /\ Len(threads) = 1
    /\ threads[1].kind = "install"
    /\ threads[1].appfiles = {}
    /\ threads[1].exc # "HTTPStatusError"
    /\ Terminated(1)

C10_Outcome ==
    /\ threads[1].app \in app_ids
    /\ "add_app" \in threads[1].calls
    /\ store_state = "IDLE"

\* C10 as claimed: installing an app that was not installed and has zero
\* files, with all coordinator calls succeeding, ends with the directory
\* present, add-app received and the node IDLE.
C10_AsClaimed == C10_Scenario => C10_Outcome

\* C10: on a registered node, installing an app that was not installed and
\* has zero files, with all coordinator calls and the creation of the app
\* directory succeeding, is answered 200, comes to an end, and ends with the
\* directory present, add-app received and the node IDLE.
C10_InstallScenario ==
    /\ [][\A a \in AppIds :
            (post_app(a) /\ store_state = "IDLE" /\ a \notin app_ids) =>
                response' = 200]_vars
    /\ []((C10_Scenario /\ store_node = "node" /\ threads[1].error # "OSError")
            => C10_Outcome)
    /\ (Len(threads) >= 1 /\ threads[1].kind = "install")
         ~> (Len(threads) >= 1 /\ Terminated(1))

C10_Witness ==
    /\ C10_Scenario
    /\ store_node = "node"
    /\ threads[1].pc = "done"
    /\ threads[1].error = "none"
    /\ C10_Outcome

----------------------------------------------------------------------------
\* a provisioning or removal step of thread record t failed: an exception
\* was caught, or a command ended with a nonzero exit status
StepFailed(t) == t.error # "none" \/ t.returncode = 1

\* the Results the coordinator received
Results == {k \in 1..Len(log) : log[k].kind = "result"}

\* C11: an install one of whose provisioning steps failed (directory
\* creation, download, venv or pip, a nonzero exit status of the venv or pip
\* command included) has reported the install failure, has sent add_app and
\* has set the node IDLE when it returns. Stated for the installs that
\* return, that is, of which no coordinator call failed.
C11_InstallFailureReported ==
    [][\A i \in ThreadIds :
         (/\ threads[i].kind = "install"
          /\ Exits(i)
          /\ threads'[i].pc = "done"
          /\ StepFailed(threads'[i])) =>
            /\ "INSTALL_ERROR" \in threads'[i].calls
            /\ "add_app" \in threads'[i].calls
            /\ store_state' = "IDLE"]_vars

\* C12: an uninstall whose removal of the directory failed (the removal
\* command ending with a nonzero exit status and the directory left in place
\* included) has reported the uninstall failure, has sent remove_app and has
\* set the node IDLE when it returns. Stated for the uninstalls that return.
C12_UninstallFailureReported ==
    [][\A i \in ThreadIds :
         (/\ threads[i].kind = "uninstall"
          /\ Exits(i)
          /\ threads'[i].pc = "done"
          /\ StepFailed(threads'[i])) =>
            /\ "UNINSTALL_ERROR" \in threads'[i].calls
            /\ "remove_app" \in threads'[i].calls
            /\ store_state' = "IDLE"]_vars

\* C13: DELETE /app/{id} handled while the state is IDLE: for an app that is
\* not installed the answer is 404 and nothing changes (no thread, no change
\* of the filesystem or the Store); for an installed app the answer is 200
\* and exactly one uninstall of that app is started.
C13_DeleteApp ==
    [][\A a \in AppIds :
         (delete_app(a) /\ store_state = "IDLE") =>
            IF a \notin app_ids
            THEN /\ response' = 404
                 /\ UNCHANGED <<store_state, store_node, store_job, fs,
                                threads, coord_state, log>>
            ELSE /\ response' = 200
                 /\ threads' = Append(threads, Thread("uninstall", a, 0, {}))
                 /\ UNCHANGED <<store_state, store_node, store_job, fs,
                                coord_state, log>>]_vars

\* the DELETE of an installed app was answered 200 and its uninstall is the
\* only thread, not yet started
C13_Witness ==
    /\ response = 200
    /\ Len(threads) = 1
    /\ threads[1] = Thread("uninstall", "app1", 0, {})
    /\ store_state = "IDLE"

\* C14: POST /app/{id} handled while the state is IDLE: for an installed app
\* the answer is 409 and nothing is started; otherwise the answer is 200 and
\* exactly one install of that app is started.
C14_PostApp ==
    [][\A a \in AppIds :
         (post_app(a) /\ store_state = "IDLE") =>
            IF a \in app_ids
            THEN /\ response' = 409
                 /\ UNCHANGED <<store_state, store_node, store_job, fs,
                                threads, coord_state, log>>
            ELSE /\ response' = 200
                 /\ threads' = Append(threads, Thread("install", a, 0, {}))
                 /\ UNCHANGED <<store_state, store_node, store_job, fs,
                                coord_state, log>>]_vars

\* a 409 given while the node is IDLE and nothing has been started: only the
\* POST of an app that is installed answers so
C14_Witness ==
    /\ response = 409
    /\ threads = <<>>
    /\ store_state = "IDLE"
    /\ "app1" \in app_ids

\* C15: POST /job handled while the state is IDLE: for an app that is not
\* installed the answer is 404, Store.job is unchanged and no run is started;
\* for an installed app the answer is 201, Store.job is the job and exactly
\* one run of it is started.
C15_CreateJob ==
    [][\A a \in AppIds, f \in JobFileSets :
         (create_job(NextJobId, a, f) /\ store_state = "IDLE") =>
            IF a \notin app_ids
            THEN /\ response' = 404
                 /\ UNCHANGED <<store_state, store_node, store_job, fs,
                                threads, coord_state, log>>
            ELSE /\ response' = 201
                 /\ store_job' = NextJobId
                 /\ threads' = Append(threads, Thread("run", a, NextJobId, f))
                 /\ UNCHANGED <<store_state, store_node, fs,
                                coord_state, log>>]_vars

\* the POST of a job with an input file was answered 201, the job is in the
\* Store and its run is the only thread, not yet started
C15_Witness ==
    /\ response = 201
    /\ store_job = 1
    /\ Len(threads) = 1
    /\ threads[1] = Thread("run", "app1", 1, {"in.dat"})

\* C16: POST /job handled while the Store holds a job that is not FINISHED
\* is answered 409 and leaves Store.job as it is.
C16_JobAlreadyExists ==
    [][\A a \in AppIds, f \in JobFileSets :
         (/\ create_job(NextJobId, a, f)
          /\ store_job # 0
          /\ threads[store_job].jobstate # "FINISHED") =>
            /\ response' = 409
            /\ store_job' = store_job]_vars

C18_ExecutionTime == \A k \in Results : log[k].val[4] >= 0

\* a Result of a run whose Popen raised: start_time was read before the
\* call, end_time in the except clause
C18_Witness ==
    \E k \in Results :
        /\ threads[log[k].thread].error = "OSError"
        /\ threads[log[k].thread].start_time = 1
        /\ log[k].val[4] = 1

C21_DownloadIsolation ==
    (transfer.op = "download" /\ transfer.pc \in {"raised", "returned"}) =>
        /\ \A f \in transfer.files :
             /\ transfer.fetch[f] = "ok" => transfer.dest[f] = "source"
             /\ transfer.dest[f] # "error_body"
        /\ (\E f \in transfer.files : transfer.fetch[f] # "ok") =>
              transfer.pc = "raised"

\* C22: a call of upload_files never raises, and it returns exactly the ids
\* of the files the coordinator accepted (none when there is no file).
C22_UploadAccepted ==
    transfer.op = "upload" =>
        /\ transfer.pc # "raised"
        /\ transfer.pc = "returned" => transfer.result = transfer.accepted

\* C23: the reports the coordinator receives of one job are not interleaved
\* with those of another job: between two reports of a job there is no
\* report of a different job.
C23_NoInterleaving ==
    \A k1, k3 \in 1..Len(log) :
        (k1 < k3 /\ log[k1].job = log[k3].job) =>
            \A k2 \in k1..k3 : log[k2].job = log[k1].job

\* C24: a run of a job sets Store.state from BUSY to IDLE only after the
\* Result and FINISHED of the job have been reported.
C24_IdleAfterFinished ==
    [][\A i \in Runs :
         (/\ threads'[i] # threads[i]
          /\ store_state = "BUSY"
          /\ store_state' = "IDLE") =>
            /\ Count(i, "result", "") = 1
            /\ Count(i, "state", "FINISHED") = 1]_vars

\* C25: a call of set_node_busy or set_node_idle on a registered node writes
\* Store.state first; when the PUT fails the Store keeps the new value, the
\* coordinator keeps the old one and the caller gets the error. Without
\* Store.node the Store is left as it is and nothing is sent.
C25_SetNodeState ==
    [][\A i \in ThreadIds :
         (set_node_busy(i) \/ set_node_idle(i)) =>
            LET new == IF threads[i].pc = "set_node_busy" THEN "BUSY" ELSE "IDLE"
            IN  IF store_node = "None"
                THEN /\ UNCHANGED <<store_state, coord_state, log>>
                     /\ threads'[i].pc = "crashed"
                     /\ threads'[i].exc = "NodeNotFoundException"
                ELSE /\ store_state' = new
                     /\ \/ /\ coord_state' = new
                           /\ threads'[i].pc # "crashed"
                        \/ /\ coord_state' = coord_state
                           /\ threads'[i].pc = "crashed"
                           /\ threads'[i].exc = "HTTPStatusError"]_vars

\* the PUT of BUSY of the only operation failed: the Store says BUSY, the
\* coordinator still IDLE, and the thread ended with the error
C25_Witness ==
    /\ Len(threads) = 1
    /\ threads[1].pc = "crashed"
    /\ threads[1].exc = "HTTPStatusError"
    /\ store_state = "BUSY"
    /\ coord_state = "IDLE"

\* C26: on a node without Store.node every background thread ends at
\* set_node_busy with NodeNotFoundException: no coordinator call, no report,
\* no download, no change of the filesystem, and Store.state is IDLE
\* throughout.
C26_Unregistered ==
    /\ [](store_node = "None" =>
            /\ store_state = "IDLE"
            /\ coord_state = "IDLE"
            /\ log = <<>>
            /\ \A i \in ThreadIds :
                 /\ threads[i].pc \in {"set_node_busy", "crashed"}
                 /\ threads[i].pc = "crashed" =>
                       threads[i].exc = "NodeNotFoundException"
                 /\ threads[i].calls = {}
                 /\ threads[i].downloads = 0)
    /\ [][store_node = "None" => fs' = fs]_vars

\* a job and an uninstall were admitted on a node without Store.node and
\* both have ended at set_node_busy
C26_Witness ==
    /\ store_node = "None"
    /\ Len(threads) = 2
    /\ threads[1].kind = "run"
    /\ threads[2].kind = "uninstall"
    /\ \A i \in {1, 2} : threads[i].exc = "NodeNotFoundException"
    /\ store_state = "IDLE"

====
